---- MODULE Spec2Model ----
(***************************************************************************)
(* Job/Task lifecycle engine and Job<->MEx allocation of the rooster       *)
(* fleet manager: JobManager/Job.py (class Job),                           *)
(* JobManager/JobActivation.py (job_allocator, job_refiner) and            *)
(* task_class.py (RobotMoveBase, AwaitingLoadCompletion).                  *)
(*                                                                         *)
(* Six specifications share the definitions below.                         *)
(*   SpecJob      : one Job object driven by every sequence of its public  *)
(*                  methods (add_task, add_tasks, assign_mex, start_job,   *)
(*                  task_cb) with arbitrary callback payloads.             *)
(*   SpecTask     : one Job whose tasks are RobotMoveBase and              *)
(*                  AwaitingLoadCompletion objects, driven by move_base    *)
(*                  done codes and LoadInput messages.                     *)
(*   SpecLive     : SpecTask with terminal signals only, delivered fairly. *)
(*   Spec         : job_allocator passes over a pending queue of Jobs and  *)
(*                  the MEx Sentinel registry, with MExs requested for     *)
(*                  queued jobs.                                           *)
(*   SpecRegistry : job_allocator passes whose registry calls may fail,    *)
(*                  with task callbacks and registry releases.             *)
(*   SpecRace     : job_allocator passes taken statement by statement,     *)
(*                  with task callbacks arriving in between.               *)
(***************************************************************************)
EXTENDS Integers, Sequences, FiniteSets, TLC

(* ------------------------------ bounds --------------------------------- *)

\* Jobs in the pending queue of Spec.
NumJobs == 2

\* Mobile executors known to the MEx Sentinel.
NumMexs == 2

\* Longest task_list of a Job.
MaxTasks == 2

\* Completion callbacks recorded per Job before task_cb deliveries stop.
MaxCompletions == 2

\* job_callback calls recorded per Task before LoadInput messages stop.
MaxReports == 3

(* --------------------------- enumerations ------------------------------ *)

JobStatus == [PENDING |-> 0, ASSIGNED |-> 1, ACTIVE |-> 2, SUCCEEDED |-> 3, ABORTED |-> 4]

JobPriority == [LOW |-> 1, MEDIUM |-> 2, HIGH |-> 3, CRITICAL |-> 4]

TaskStatus == [PENDING |-> 0, ACTIVE |-> 1, CANCELLED |-> 2, SUCCEEDED |-> 3, ABORTED |-> 4]

TaskType == [ROBOTMOVEBASE |-> 0, AWAITINGLOADCOMPLETION |-> 1]

MExStatus == [STANDBY |-> "STANDBY", ASSIGNED |-> "ASSIGNED", EXECUTING_TASK |-> "EXECUTING_TASK"]

\* Python's None (mex_id before assignment, task_current before start,
\* callback_status of an unmapped move_base code, no return value).
None == -1

MexIds == 1..NumMexs

\* task_id values a task callback can carry: every list index and one past the end.
TaskIds == 0..MaxTasks

\* task_status values a task callback can carry.
TaskStatusValues == {TaskStatus.PENDING, TaskStatus.ACTIVE, TaskStatus.CANCELLED, TaskStatus.SUCCEEDED, TaskStatus.ABORTED, None}

(* ------------------------------- state --------------------------------- *)

VARIABLES
    job,                \* job id -> the Job object and the calls it has made
    accepted,           \* job id -> task indices whose (index, SUCCEEDED) callback arrived while current and ACTIVE
    in_order,           \* job id -> number of callbacks received, while they are (0,S),(1,S),.. after start; else None
    pending_jobs_list,  \* queue of job ids awaiting allocation
    active_jobs_list,   \* job ids handed over by the job_refiner
    registry,           \* MEx Sentinel: mex id -> [status, job_id]
    mexs_list,          \* job_allocator's local copy of the MEx list after its last pass
    task,               \* <<job id, list index>> -> the Task object at that place of the job's task_list
    pass_at,            \* the statement a job_allocator pass in progress has reached, and its job
    pass_log,           \* registry calls and MEx list writes of the last job_allocator pass, in program order
    last                \* the last operation invoked, with its arguments and outcome

vars == <<job, task, accepted, in_order, pending_jobs_list, active_jobs_list, registry, mexs_list, pass_at, pass_log, last>>

JobIds == DOMAIN job

(* ----------------------------- class Job ------------------------------- *)

\* Job.__init__: a PENDING job with no current task; `started` and `completed`
\* record its calls of Task.start(robot_id, task_id, cb) and of completion_callback(id, mex_id).
NewJob(job_id, mex_id, priority, task_count) ==
    [id |-> job_id, mex_id |-> mex_id, status |-> JobStatus.PENDING,
     task_count |-> task_count, task_current |-> None, priority |-> priority,
     started |-> <<>>, completed |-> <<>>]

\* Job.add_task
add_task(jb) == [jb EXCEPT !.task_count = jb.task_count + 1]

\* Job.add_tasks with a list of n tasks
add_tasks(jb, n) == [jb EXCEPT !.task_count = jb.task_count + n]

\* An assign_mex that also rebinds a job that is already running.
CanAssignWhileActive(jb) == jb.status \in {JobStatus.PENDING, JobStatus.ASSIGNED, JobStatus.ACTIVE}

\* Job.assign_mex: the status test
CanAssign(jb) == jb.status = JobStatus.PENDING \/ jb.status = JobStatus.ASSIGNED

\* Job.assign_mex
assign_mex(jb, mex_id) ==
    IF CanAssign(jb)
    THEN [jb EXCEPT !.mex_id = mex_id, !.status = JobStatus.ASSIGNED]
    ELSE jb

\* task_list[i].start(self.mex_id, i, self.task_cb): list indexing raises IndexError past the end.
IndexError(jb, i) == i >= jb.task_count

StartTask(jb, i) ==
    IF IndexError(jb, i) THEN jb
    ELSE [jb EXCEPT !.started = Append(jb.started, <<i, jb.mex_id>>)]

\* Job.start_job: the status test
CanStart(jb) == jb.status = JobStatus.ASSIGNED

\* Job.start_job
start_job(jb) ==
    IF CanStart(jb)
    THEN StartTask([jb EXCEPT !.status = JobStatus.ACTIVE, !.task_current = 0], 0)
    ELSE jb

\* Job.start_job raises when task_list is empty
start_job_raises(jb) == CanStart(jb) /\ IndexError(jb, 0)

\* Job.next_task
next_task(jb) ==
    IF jb.status = JobStatus.ACTIVE
    THEN StartTask([jb EXCEPT !.task_current = jb.task_current + 1], jb.task_current + 1)
    ELSE jb

\* self.completion_callback(self.id, self.mex_id)
completion_callback(jb) == [jb EXCEPT !.completed = Append(jb.completed, <<jb.id, jb.mex_id>>)]

\* A task_cb that also lets callbacks of earlier tasks through.
MatchesCurrentOrEarlier(jb, task_id) == task_id <= jb.task_current

\* Job.task_cb: the test that lets a callback through
MatchesCurrent(jb, task_id) == task_id = jb.task_current

\* A task_cb that is off by one at the end of the task list.
HasNextTaskOffByOne(jb) == jb.task_current < jb.task_count

\* Job.task_cb: more tasks after the current one
HasNextTask(jb) == jb.task_current + 1 < jb.task_count

\* A task_cb that does not treat a cancelled task as an abort.
IsAbortStatusAbortedOnly(task_status) == task_status = TaskStatus.ABORTED

\* Job.task_cb: the statuses that abort the job
IsAbortStatus(task_status) == task_status = TaskStatus.CANCELLED \/ task_status = TaskStatus.ABORTED

\* Job.task_cb(data) with data = [task_id, task_status]
task_cb(jb, task_id, task_status) ==
    IF MatchesCurrent(jb, task_id)
    THEN IF task_status = TaskStatus.SUCCEEDED
         THEN IF HasNextTask(jb)
              THEN next_task(jb)
              ELSE completion_callback([jb EXCEPT !.status = JobStatus.SUCCEEDED])
         ELSE IF IsAbortStatus(task_status)
              THEN completion_callback([jb EXCEPT !.status = JobStatus.ABORTED])
              ELSE jb
    ELSE jb

(* ------------- classes RobotMoveBase, AwaitingLoadCompletion ----------- *)

\* RobotMoveBase.__init__, AwaitingLoadCompletion.__init__: a task that has not
\* been started. `listening` tells whether a move_base goal of the task is
\* pending or the task is subscribed to LoadInput; `reported` records its calls
\* of job_callback([task_id, status]). Only AwaitingLoadCompletion has a status.
NewTask(type) ==
    [type |-> type, id |-> None, task_id |-> None,
     status |-> IF type = TaskType.AWAITINGLOADCOMPLETION THEN TaskStatus.PENDING ELSE None,
     listening |-> FALSE, reported |-> <<>>]

\* RobotMoveBase.start (send_goal), AwaitingLoadCompletion.start (rospy.Subscriber)
start(tk, robot_id, task_id) ==
    [tk EXCEPT !.id = robot_id, !.task_id = task_id, !.listening = TRUE,
               !.status = IF tk.type = TaskType.AWAITINGLOADCOMPLETION THEN TaskStatus.ACTIVE ELSE @]

\* RobotMoveBase.done_cb: callback_status for a move_base status code
callback_status(status) ==
    IF status = 3 THEN TaskStatus.SUCCEEDED
    ELSE IF status = 2 \/ status = 8 THEN TaskStatus.CANCELLED
    ELSE IF status = 4 THEN TaskStatus.ABORTED
    ELSE None

\* RobotMoveBase.done_cb(status, result): the goal is over
done_cb(tk, status) ==
    [tk EXCEPT !.listening = FALSE,
               !.reported = Append(@, <<tk.task_id, callback_status(status)>>)]

\* AwaitingLoadCompletion.input_cb: the input values that end the task
IsEndInput(data) == data = 2 \/ data = 3 \/ data = 4

\* AwaitingLoadCompletion.input_cb: self.status after the input
input_status(tk, data) ==
    IF data = 3 THEN TaskStatus.SUCCEEDED
    ELSE IF data = 2 THEN TaskStatus.CANCELLED
    ELSE IF data = 4 THEN TaskStatus.ABORTED
    ELSE tk.status

\* AwaitingLoadCompletion.input_cb(data) of a started task
input_cb(tk, data) ==
    [tk EXCEPT !.status = input_status(tk, data),
               !.listening = IF IsEndInput(data) THEN FALSE ELSE @,
               !.reported = Append(@, <<tk.task_id, input_status(tk, data)>>)]

(* ----------------------- operations on one Job ------------------------- *)

Op(op, j, task_id, task_status, mex, ret, raised) ==
    [op |-> op, job |-> j, task_id |-> task_id, task_status |-> task_status,
     mex |-> mex, ret |-> ret, raised |-> raised, data |-> None]

\* A callback of a Task object with its argument: a move_base status code or a LoadInput value.
Event(op, j, task_id, task_status, data) ==
    [Op(op, j, task_id, task_status, None, None, FALSE) EXCEPT !.data = data]

\* The Task objects after the Task.start calls that took a job from `before` to `after`.
StartTasks(tk, before, after) ==
    [p \in DOMAIN tk |->
        LET new == {k \in (Len(before.started) + 1)..Len(after.started) : after.started[k][1] = p[2]}
        IN  IF p[1] = after.id /\ new # {}
            THEN start(tk[p], after.started[CHOOSE k \in new : TRUE][2], p[2])
            ELSE tk[p]]

Started(jb) == jb.status \notin {JobStatus.PENDING, JobStatus.ASSIGNED}

\* No job_allocator pass is in progress.
Idle == [at |-> "idle", job |-> None]

AllocatorUnchanged == UNCHANGED <<pending_jobs_list, active_jobs_list, registry, mexs_list, pass_at, pass_log>>

AddTask(j) ==
    /\ job[j].task_count < MaxTasks
    /\ job' = [job EXCEPT ![j] = add_task(job[j])]
    /\ in_order' = [in_order EXCEPT ![j] = IF Started(job[j]) THEN None ELSE @]
    /\ last' = Op("add_task", j, None, None, None, None, FALSE)
    /\ UNCHANGED <<accepted, task>>
    /\ AllocatorUnchanged

AddTasks(j, n) ==
    /\ job[j].task_count + n <= MaxTasks
    /\ job' = [job EXCEPT ![j] = add_tasks(job[j], n)]
    /\ in_order' = [in_order EXCEPT ![j] = IF Started(job[j]) /\ n > 0 THEN None ELSE @]
    /\ last' = Op("add_tasks", j, None, None, None, None, FALSE)
    /\ UNCHANGED <<accepted, task>>
    /\ AllocatorUnchanged

AssignMex(j, mex_id) ==
    /\ job' = [job EXCEPT ![j] = assign_mex(job[j], mex_id)]
    /\ last' = Op("assign_mex", j, None, None, mex_id, None, FALSE)
    /\ UNCHANGED <<accepted, in_order, task>>
    /\ AllocatorUnchanged

StartJob(j) ==
    /\ job' = [job EXCEPT ![j] = start_job(job[j])]
    /\ task' = StartTasks(task, job[j], job'[j])
    /\ last' = Op("start_job", j, None, None, None, None, start_job_raises(job[j]))
    /\ UNCHANGED <<accepted, in_order>>
    /\ AllocatorUnchanged

\* job_callback([task_id, task_status]) of job j, called by a Task object that
\* is left as `tk` by the callback that makes the call.
JobCallback(j, task_id, task_status, tk) ==
    /\ job' = [job EXCEPT ![j] = task_cb(job[j], task_id, task_status)]
    /\ task' = StartTasks(tk, job[j], job'[j])
    /\ accepted' = [accepted EXCEPT ![j] =
            IF /\ task_id = job[j].task_current
               /\ job[j].status = JobStatus.ACTIVE
               /\ task_status = TaskStatus.SUCCEEDED
            THEN @ \cup {task_id} ELSE @]
    /\ in_order' = [in_order EXCEPT ![j] =
            IF /\ @ # None
               /\ Started(job[j])
               /\ task_status = TaskStatus.SUCCEEDED
               /\ task_id = @
               /\ task_id < job[j].task_count
            THEN @ + 1 ELSE None]
    /\ AllocatorUnchanged

TaskCb(j, task_id, task_status) ==
    /\ Len(job[j].completed) < MaxCompletions
    /\ JobCallback(j, task_id, task_status, task)
    /\ last' = Op("task_cb", j, task_id, task_status, None, None, FALSE)

(* ------------------------- SpecJob: one Job ---------------------------- *)

\* A new Job with any pre-assigned mex_id and a task_list of any length from
\* MaxTasks down to the empty list.
InitJob ==
    /\ \E mex_id \in MexIds \cup {None}, priority \in {JobPriority.LOW, JobPriority.CRITICAL},
          spare \in 0..MaxTasks :
            job = [j \in {1} |-> NewJob(j, mex_id, priority, MaxTasks - spare)]
    /\ accepted = [j \in {1} |-> {}]
    /\ in_order = [j \in {1} |-> 0]
    /\ pending_jobs_list = <<>>
    /\ active_jobs_list = <<>>
    /\ registry = [m \in MexIds |-> [status |-> MExStatus.STANDBY, job_id |-> None]]
    /\ mexs_list = <<>>
    /\ pass_at = Idle
    /\ pass_log = <<>>
    /\ task = [p \in {} |-> NewTask(TaskType.ROBOTMOVEBASE)]
    /\ last = Op("init", None, None, None, None, None, FALSE)

NextJob ==
    \/ \E j \in JobIds : AddTask(j)
    \/ \E j \in JobIds, n \in 0..MaxTasks : AddTasks(j, n)
    \/ \E j \in JobIds, mex_id \in MexIds : AssignMex(j, mex_id)
    \/ \E j \in JobIds : StartJob(j)
    \/ \E j \in JobIds, task_id \in TaskIds, task_status \in TaskStatusValues : TaskCb(j, task_id, task_status)

SpecJob == InitJob /\ [][NextJob]_vars

(* ------------------ SpecTask: one Job and its Tasks -------------------- *)

\* GoalStatus codes of a move_base goal that is over, the codes with which
\* actionlib calls done_cb: PREEMPTED, SUCCEEDED, ABORTED, REJECTED, RECALLED, LOST.
DoneCodes == {2, 3, 4, 5, 8, 9}

\* Values published on LoadInput: the load status options 0..4 and one value outside them.
InputValues == 0..5

\* move_base reports the end of the goal of a started RobotMoveBase task.
DoneCb(j, i, status) ==
    /\ <<j, i>> \in DOMAIN task
    /\ task[<<j, i>>].type = TaskType.ROBOTMOVEBASE
    /\ task[<<j, i>>].listening
    /\ LET tk == done_cb(task[<<j, i>>], status)
       IN  JobCallback(j, tk.task_id, callback_status(status), [task EXCEPT ![<<j, i>>] = tk])
    /\ last' = Event("done_cb", j, i, callback_status(status), status)

\* A LoadInput message reaches a subscribed AwaitingLoadCompletion task.
InputCb(j, i, data) ==
    /\ <<j, i>> \in DOMAIN task
    /\ task[<<j, i>>].type = TaskType.AWAITINGLOADCOMPLETION
    /\ task[<<j, i>>].listening
    /\ Len(task[<<j, i>>].reported) < MaxReports
    /\ LET tk == input_cb(task[<<j, i>>], data)
       IN  JobCallback(j, tk.task_id, tk.status, [task EXCEPT ![<<j, i>>] = tk])
    /\ last' = Event("input_cb", j, i, input_status(task[<<j, i>>], data), data)

\* A new Job whose task_list holds RobotMoveBase and AwaitingLoadCompletion
\* tasks in any arrangement, from MaxTasks tasks down to none.
InitTask ==
    /\ \E spare \in 0..MaxTasks :
          \E type \in [0..(MaxTasks - spare - 1) -> {TaskType.AWAITINGLOADCOMPLETION, TaskType.ROBOTMOVEBASE}] :
            /\ job = [j \in {1} |-> NewJob(j, None, JobPriority.LOW, MaxTasks - spare)]
            /\ task = [p \in {1} \X (0..(MaxTasks - spare - 1)) |-> NewTask(type[p[2]])]
    /\ accepted = [j \in {1} |-> {}]
    /\ in_order = [j \in {1} |-> 0]
    /\ pending_jobs_list = <<>>
    /\ active_jobs_list = <<>>
    /\ registry = [m \in MexIds |-> [status |-> MExStatus.STANDBY, job_id |-> None]]
    /\ mexs_list = <<>>
    /\ pass_at = Idle
    /\ pass_log = <<>>
    /\ last = Op("init", None, None, None, None, None, FALSE)

NextTask ==
    \/ \E j \in JobIds, mex_id \in MexIds : AssignMex(j, mex_id)
    \/ \E j \in JobIds : StartJob(j)
    \/ \E j \in JobIds, i \in TaskIds, status \in DoneCodes : DoneCb(j, i, status)
    \/ \E j \in JobIds, i \in TaskIds, data \in InputValues : InputCb(j, i, data)

SpecTask == InitTask /\ [][NextTask]_vars

(* ------------- SpecLive: Tasks that report a terminal status ----------- *)

\* move_base ends the goal of a started task with a code that done_cb maps.
TerminalDone ==
    \E j \in JobIds, i \in TaskIds, status \in {c \in DoneCodes : callback_status(c) # None} :
        DoneCb(j, i, status)

\* A LoadInput message that ends the task reaches a subscribed task.
TerminalInput ==
    \E j \in JobIds, i \in TaskIds, data \in {d \in InputValues : IsEndInput(d)} :
        InputCb(j, i, data)

NextLive ==
    \/ \E j \in JobIds, mex_id \in MexIds : AssignMex(j, mex_id)
    \/ \E j \in JobIds : StartJob(j)
    \/ TerminalDone
    \/ TerminalInput

\* Every started task delivers its terminal callback: the end of a pending goal
\* and the ending input of a subscribed task are not postponed forever.
SpecLive == InitTask /\ [][NextLive]_vars /\ WF_vars(TerminalDone) /\ WF_vars(TerminalInput)

(* ------------------- MEx Sentinel registry services -------------------- *)

\* call_get_mex_list(): an up-to-date copy of the registry's MEx list, in id order.
call_get_mex_list ==
    [k \in 1..NumMexs |-> [id |-> k, status |-> registry[k].status, job_id |-> registry[k].job_id]]

\* call_assign_job(job_id, mex_id): the registry marks the MEx assigned to the job.
call_assign_job(reg, job_id, mex_id) ==
    [reg EXCEPT ![mex_id] = [status |-> MExStatus.ASSIGNED, job_id |-> job_id]]

\* call_change_mex_status(mex_id, status): the registry records the new status.
call_change_mex_status(reg, mex_id, mex_status) ==
    [reg EXCEPT ![mex_id].status = mex_status]

(* ---------------------- job_allocator, job_refiner --------------------- *)

\* A job_allocator that forgets the pre-assigned mex_id.
MexAvailableAnyId(mex, jb) == mex.status = MExStatus.STANDBY

\* job_allocator: a MEx on standby that the job may use ("not job.mex_id" or the ids match).
MexAvailable(mex, jb) ==
    /\ mex.status = MExStatus.STANDBY
    /\ (jb.mex_id = None \/ jb.mex_id = mex.id)

\* job_allocator, inner loop: position in mexs_list of the first available MEx
\* from position k on, 0 when the loop ends without a break.
RECURSIVE FindMex(_, _, _)
FindMex(jb, list, k) ==
    IF k > Len(list) THEN 0
    ELSE IF MexAvailable(list[k], jb) THEN k
    ELSE FindMex(jb, list, k + 1)

\* job_allocator: the status test on a queued job
IsPending(jb) == jb.status = JobStatus.PENDING

\* A job_allocator that gives up at the first pending job.
RECURSIVE FindJobStopOnFirst(_, _, _)
FindJobStopOnFirst(pending, list, index) ==
    IF index > Len(pending) THEN 0
    ELSE IF IsPending(job[pending[index]])
         THEN (IF FindMex(job[pending[index]], list, 1) # 0 THEN index ELSE 0)
         ELSE FindJobStopOnFirst(pending, list, index + 1)

\* A job_allocator that serves the highest priority first.
FindJobByPriority(pending, list, index) ==
    LET found == {k \in index..Len(pending) :
                    IsPending(job[pending[k]]) /\ FindMex(job[pending[k]], list, 1) # 0}
    IN  IF found = {} THEN 0
        ELSE CHOOSE k \in found :
                \A other \in found :
                    \/ job[pending[k]].priority > job[pending[other]].priority
                    \/ (job[pending[k]].priority = job[pending[other]].priority /\ k <= other)

\* job_allocator, outer loop: position in pending_jobs_list of the job that gets
\* allocated (allocated_job_index), scanning from position index on; 0 for None.
\* A pending job without an available MEx ends the inner loop and the scan goes on.
RECURSIVE FindJob(_, _, _)
FindJob(pending, list, index) ==
    IF index > Len(pending) THEN 0
    ELSE IF IsPending(job[pending[index]]) /\ FindMex(job[pending[index]], list, 1) # 0 THEN index
    ELSE FindJob(pending, list, index + 1)

\* pending_jobs_list.pop(allocated_job_index)
Pop(list, index) == [k \in 1..(Len(list) - 1) |-> IF k < index THEN list[k] ELSE list[k + 1]]

\* A job_refiner that leaves the local MEx list as job_allocator wrote it.
RefineMexsListKeepsAssigned(list, refined_job) == list

\* job_refiner: the local MEx entries of the refined job become EXECUTING_TASK.
RefineMexsList(list, refined_job) ==
    [k \in 1..Len(list) |->
        IF list[k].id = refined_job.mex_id /\ list[k].job_id = refined_job.id
        THEN [list[k] EXCEPT !.status = MExStatus.EXECUTING_TASK]
        ELSE list[k]]

\* The status field of a pass_log entry that carries no MEx status.
NoStatus == "None"

\* One entry of pass_log: a registry service call with its outcome, or a write
\* ("mex.status") to an entry of the local MEx list.
LogEntry(call, job_id, mex_id, mex_status, outcome) ==
    [call |-> call, job |-> job_id, mex |-> mex_id, status |-> mex_status, outcome |-> outcome]

\* job_allocator lines 39-40 and line 50: what a pass logs up to call_assign_job.
AssignLog(rough_job, outcome) ==
    << LogEntry("call_get_mex_list", None, None, NoStatus, "ack"),
       LogEntry("mex.status", rough_job.id, rough_job.mex_id, MExStatus.ASSIGNED, "written"),
       LogEntry("call_assign_job", rough_job.id, rough_job.mex_id, NoStatus, outcome) >>

\* job_refiner lines 69-74: what it logs up to call_change_mex_status.
RefineLog(refined_job, outcome) ==
    << LogEntry("mex.status", refined_job.id, refined_job.mex_id, MExStatus.EXECUTING_TASK, "written"),
       LogEntry("call_change_mex_status", None, refined_job.mex_id, MExStatus.EXECUTING_TASK, outcome) >>

\* job_allocator(pending_jobs_list, active_jobs_list, mexs_list), job_refiner included.
Allocate ==
    LET list == call_get_mex_list
        index == FindJob(pending_jobs_list, list, 1)
    IN  IF index = 0
        THEN \* loop ended without an allocation: error_code = 1
             /\ mexs_list' = list
             /\ pass_log' = <<LogEntry("call_get_mex_list", None, None, NoStatus, "ack")>>
             /\ last' = Op("job_allocator", None, None, None, None, 1, FALSE)
             /\ UNCHANGED <<job, task, accepted, in_order, pending_jobs_list, active_jobs_list, registry, pass_at>>
        ELSE LET j == pending_jobs_list[index]
                 k == FindMex(job[j], list, 1)
                 mex == list[k]
                 allocated == [list EXCEPT ![k] = [mex EXCEPT !.status = MExStatus.ASSIGNED, !.job_id = job[j].id]]
                 rough_job == assign_mex(job[j], mex.id)
                 assigned == call_assign_job(registry, rough_job.id, rough_job.mex_id)
                 refined_job == start_job(rough_job)
             IN  /\ pending_jobs_list' = Pop(pending_jobs_list, index)
                 /\ job' = [job EXCEPT ![j] = refined_job]
                 /\ task' = StartTasks(task, job[j], refined_job)
                 /\ UNCHANGED <<accepted, in_order, pass_at>>
                 /\ IF start_job_raises(rough_job)
                    THEN \* IndexError leaves job_refiner and job_allocator
                         /\ mexs_list' = allocated
                         /\ registry' = assigned
                         /\ UNCHANGED active_jobs_list
                         /\ pass_log' = AssignLog(rough_job, "ack")
                         /\ last' = Op("job_allocator", j, None, None, mex.id, None, TRUE)
                    ELSE /\ mexs_list' = RefineMexsList(allocated, refined_job)
                         /\ registry' = call_change_mex_status(assigned, refined_job.mex_id, MExStatus.EXECUTING_TASK)
                         /\ active_jobs_list' = Append(active_jobs_list, j)
                         /\ pass_log' = AssignLog(rough_job, "ack") \o RefineLog(refined_job, "ack")
                         /\ last' = Op("job_allocator", j, None, None, mex.id, 0, FALSE)

\* Outcomes of a registry service call: acknowledged and applied; "error", the
\* call comes back without an acknowledgement and the registry has applied
\* nothing (call_get_mex_list comes back without a list); "raise", the call
\* raises an exception in the caller.
Outcomes == {"ack", "error", "raise"}

\* Where a job_allocator pass ends when its registry calls have the outcomes
\* get, assign and change: at the call that raises, at the for statement over a
\* MEx list that is None ("scan"), at start_job's IndexError, or at a return.
PassEnd(get, assign, change) ==
    IF get = "raise" THEN "call_get_mex_list"
    ELSE IF get = "error"
         THEN (IF \E i \in 1..Len(pending_jobs_list) : IsPending(job[pending_jobs_list[i]])
               THEN "scan" ELSE "return 1")
    ELSE IF FindJob(pending_jobs_list, call_get_mex_list, 1) = 0 THEN "return 1"
    ELSE IF assign = "raise" THEN "call_assign_job"
    ELSE LET j == pending_jobs_list[FindJob(pending_jobs_list, call_get_mex_list, 1)]
             mex == call_get_mex_list[FindMex(job[j], call_get_mex_list, 1)]
         IN  IF start_job_raises(assign_mex(job[j], mex.id)) THEN "start_job"
             ELSE IF change = "raise" THEN "call_change_mex_status"
             ELSE "return 0"

\* job_allocator and job_refiner when the registry calls have the outcomes get,
\* assign and change. Neither function tests what a call returns nor catches
\* what it raises.
AllocateWith(get, assign, change) ==
    LET end == PassEnd(get, assign, change)
        list == IF get = "ack" THEN call_get_mex_list ELSE <<>>
        index == FindJob(pending_jobs_list, list, 1)
        j == pending_jobs_list[index]
        k == FindMex(job[j], list, 1)
        mex == list[k]
        allocated == [list EXCEPT ![k] = [mex EXCEPT !.status = MExStatus.ASSIGNED, !.job_id = job[j].id]]
        rough_job == assign_mex(job[j], mex.id)
        assigned == IF assign = "ack"
                    THEN call_assign_job(registry, rough_job.id, rough_job.mex_id)
                    ELSE registry
        refined_job == start_job(rough_job)
        changed == IF change = "ack"
                   THEN call_change_mex_status(assigned, refined_job.mex_id, MExStatus.EXECUTING_TASK)
                   ELSE assigned
    IN  /\ UNCHANGED <<accepted, in_order, pass_at>>
        /\ IF end \in {"call_get_mex_list", "scan", "return 1"}
           THEN /\ mexs_list' = IF end = "call_get_mex_list" THEN mexs_list ELSE list
                /\ pass_log' = <<LogEntry("call_get_mex_list", None, None, NoStatus, get)>>
                /\ last' = Op("job_allocator", None, None, None, None,
                              IF end = "return 1" THEN 1 ELSE None, end # "return 1")
                /\ UNCHANGED <<job, task, pending_jobs_list, active_jobs_list, registry>>
           ELSE /\ pending_jobs_list' = Pop(pending_jobs_list, index)
                /\ job' = [job EXCEPT ![j] = IF end = "call_assign_job" THEN rough_job ELSE refined_job]
                /\ task' = StartTasks(task, job[j], job'[j])
                /\ mexs_list' = IF end \in {"call_assign_job", "start_job"}
                                THEN allocated
                                ELSE RefineMexsList(allocated, refined_job)
                /\ registry' = IF end = "call_assign_job" THEN registry
                               ELSE IF end = "start_job" THEN assigned
                               ELSE IF end = "call_change_mex_status" THEN assigned
                               ELSE changed
                /\ active_jobs_list' = IF end = "return 0"
                                       THEN Append(active_jobs_list, j)
                                       ELSE active_jobs_list
                /\ pass_log' = IF end \in {"call_assign_job", "start_job"}
                               THEN AssignLog(rough_job, assign)
                               ELSE AssignLog(rough_job, assign) \o RefineLog(refined_job, change)
                /\ last' = Op("job_allocator", j, None, None, mex.id,
                              IF end = "return 0" THEN 0 ELSE None, end # "return 0")

(* ----------------------- Spec: the job manager ------------------------- *)

\* Priorities given to the queued jobs: rising or falling along the queue, so
\* that queue order and priority order disagree in some queue.
PriorityProfiles ==
    { [j \in 1..NumJobs |-> IF j = 1 THEN JobPriority.LOW ELSE JobPriority.CRITICAL],
      [j \in 1..NumJobs |-> IF j = 1 THEN JobPriority.HIGH ELSE JobPriority.MEDIUM] }

\* A queue of new Jobs, each with any pre-assigned mex_id and a task_list that is
\* full or empty (job_allocator and job_refiner never look further into it), and
\* a registry whose MExs are on standby or busy.
Init ==
    /\ \E mex_id \in [1..NumJobs -> MexIds \cup {None}],
          priority \in PriorityProfiles,
          empty \in [1..NumJobs -> BOOLEAN] :
            job = [j \in 1..NumJobs |->
                     NewJob(j, mex_id[j], priority[j], IF empty[j] THEN 0 ELSE MaxTasks)]
    /\ accepted = [j \in 1..NumJobs |-> {}]
    /\ in_order = [j \in 1..NumJobs |-> 0]
    /\ pending_jobs_list = [j \in 1..NumJobs |-> j]
    /\ active_jobs_list = <<>>
    /\ \E mex_status \in [MexIds -> {MExStatus.STANDBY, MExStatus.EXECUTING_TASK}] :
            registry = [m \in MexIds |-> [status |-> mex_status[m], job_id |-> None]]
    /\ mexs_list = <<>>
    /\ pass_at = Idle
    /\ pass_log = <<>>
    /\ task = [p \in {} |-> NewTask(TaskType.ROBOTMOVEBASE)]
    /\ last = Op("init", None, None, None, None, None, FALSE)

\* A MEx is requested for a job that waits in the queue.
Preassign(j, mex_id) ==
    /\ \E k \in 1..Len(pending_jobs_list) : pending_jobs_list[k] = j
    /\ AssignMex(j, mex_id)

Next ==
    \/ Allocate
    \/ \E j \in JobIds, mex_id \in MexIds : Preassign(j, mex_id)

Spec == Init /\ [][Next]_vars

(* ------------- SpecRegistry: passes over a failing registry ------------ *)

\* The current task of an ACTIVE job, started by the job, reports a terminal status.
Deliver(j, task_status) ==
    /\ job[j].status = JobStatus.ACTIVE
    /\ Len(job[j].started) = job[j].task_current + 1
    /\ TaskCb(j, job[j].task_current, task_status)

\* The registry puts a MEx back on standby once the job it has recorded for that
\* MEx has called its completion callback.
Release(m) ==
    /\ registry[m].status # MExStatus.STANDBY
    /\ registry[m].job_id # None
    /\ job[registry[m].job_id].completed # <<>>
    /\ registry' = [registry EXCEPT ![m] = [status |-> MExStatus.STANDBY, job_id |-> None]]
    /\ last' = Op("release", registry[m].job_id, None, None, m, None, FALSE)
    /\ UNCHANGED <<job, task, accepted, in_order, pending_jobs_list, active_jobs_list, mexs_list, pass_at, pass_log>>

NextRegistry ==
    \/ \E get \in Outcomes, assign \in Outcomes, change \in Outcomes : AllocateWith(get, assign, change)
    \/ \E j \in JobIds, task_status \in {TaskStatus.SUCCEEDED, TaskStatus.ABORTED} : Deliver(j, task_status)
    \/ \E m \in MexIds : Release(m)

SpecRegistry == Init /\ [][NextRegistry]_vars

(* ------ SpecRace: task callbacks between the statements of a pass ------ *)

\* job_allocator up to the return of refined_job.start_job() in job_refiner. A
\* pass that finds no pair, or whose start_job raises, ends here; otherwise it
\* goes on at the for statement of job_refiner.
AllocateStart ==
    /\ pass_at = Idle
    /\ IF PassEnd("ack", "ack", "ack") # "return 0"
       THEN Allocate
       ELSE LET list == call_get_mex_list
                index == FindJob(pending_jobs_list, list, 1)
                j == pending_jobs_list[index]
                k == FindMex(job[j], list, 1)
                mex == list[k]
                rough_job == assign_mex(job[j], mex.id)
                refined_job == start_job(rough_job)
            IN  /\ mexs_list' = [list EXCEPT ![k] = [mex EXCEPT !.status = MExStatus.ASSIGNED, !.job_id = job[j].id]]
                /\ pending_jobs_list' = Pop(pending_jobs_list, index)
                /\ registry' = call_assign_job(registry, rough_job.id, rough_job.mex_id)
                /\ job' = [job EXCEPT ![j] = refined_job]
                /\ task' = StartTasks(task, job[j], refined_job)
                /\ pass_log' = AssignLog(rough_job, "ack")
                /\ pass_at' = [at |-> "refine", job |-> j]
                /\ last' = Op("job_allocator", j, None, None, mex.id, None, FALSE)
                /\ UNCHANGED <<accepted, in_order, active_jobs_list>>

\* job_refiner: the for statement over mexs_list and call_change_mex_status.
RefineNotify ==
    /\ pass_at.at = "refine"
    /\ LET refined_job == job[pass_at.job]
       IN  /\ mexs_list' = RefineMexsList(mexs_list, refined_job)
           /\ registry' = call_change_mex_status(registry, refined_job.mex_id, MExStatus.EXECUTING_TASK)
           /\ pass_log' = pass_log \o RefineLog(refined_job, "ack")
           /\ last' = Op("call_change_mex_status", refined_job.id, None, None, refined_job.mex_id, None, FALSE)
    /\ pass_at' = [pass_at EXCEPT !.at = "append"]
    /\ UNCHANGED <<job, task, accepted, in_order, pending_jobs_list, active_jobs_list>>

\* job_refiner: active_jobs_list.append(refined_job); return 0
RefineAppend ==
    /\ pass_at.at = "append"
    /\ active_jobs_list' = Append(active_jobs_list, pass_at.job)
    /\ pass_at' = Idle
    /\ last' = Op("job_refiner", pass_at.job, None, None, job[pass_at.job].mex_id, 0, FALSE)
    /\ UNCHANGED <<job, task, accepted, in_order, pending_jobs_list, registry, mexs_list, pass_log>>

NextRace ==
    \/ AllocateStart
    \/ RefineNotify
    \/ RefineAppend
    \/ \E j \in JobIds, task_status \in {TaskStatus.SUCCEEDED, TaskStatus.ABORTED} : Deliver(j, task_status)

SpecRace == Init /\ [][NextRace]_vars

(* --------------------- properties of one Job (SpecJob) ----------------- *)

Terminal == {JobStatus.SUCCEEDED, JobStatus.ABORTED}

\* C1: a Job invokes its completion callback at most once in total, whatever
\* callbacks are delivered (duplicates and late ones included), and only while
\* its status is Succeeded or Aborted.
C1_CompletionAtMostOnce ==
    \A j \in JobIds :
        /\ Len(job[j].completed) <= 1
        /\ Len(job[j].completed) > 0 => job[j].status \in Terminal

\* C2: once a Job is Succeeded or Aborted, no operation changes its status or
\* its current task index, starts a task or fires the completion callback.
C2_TerminalSticky ==
    [][\A j \in JobIds :
          job[j].status \in Terminal =>
              /\ job'[j].status = job[j].status
              /\ job'[j].task_current = job[j].task_current
              /\ job'[j].started = job[j].started
              /\ job'[j].completed = job[j].completed]_vars

\* C3: the Task.start calls of a Job are the task list indices 0,1,2,.. in
\* order, each at most once and within the list, and task i+1 is started only
\* once a callback (i, SUCCEEDED) has arrived while i was current and the job ACTIVE.
C3_StartsInListOrder ==
    \A j \in JobIds :
        /\ Len(job[j].started) <= job[j].task_count
        /\ \A k \in 1..Len(job[j].started) :
              /\ job[j].started[k][1] = k - 1
              /\ k > 1 => (k - 2) \in accepted[j]

\* C4: a Job with N >= 1 tasks that was assigned to e, started, and then received
\* exactly (0,S),(1,S),..,(N-1,S) is Succeeded, has started each task once on e and
\* has called completion_callback once with (id, e); while fewer than N of these
\* callbacks have arrived it is Active and the completion callback has not fired.
C4_RoundTrip ==
    \A j \in JobIds :
        LET jb == job[j]
            N == jb.task_count
        IN  /\ (N >= 1 /\ in_order[j] = N) =>
                  /\ jb.status = JobStatus.SUCCEEDED
                  /\ jb.mex_id \in MexIds
                  /\ jb.started = [k \in 1..N |-> <<k - 1, jb.mex_id>>]
                  /\ jb.completed = << <<j, jb.mex_id>> >>
            /\ (Started(jb) /\ in_order[j] # None /\ in_order[j] < N) =>
                  /\ jb.status = JobStatus.ACTIVE
                  /\ jb.completed = <<>>
                  /\ jb.started = [k \in 1..(in_order[j] + 1) |-> <<k - 1, jb.mex_id>>]

C4_Witness ==
    \E j \in JobIds :
        /\ job[j].task_count >= 2
        /\ in_order[j] = job[j].task_count
        /\ job[j].status = JobStatus.SUCCEEDED

\* C5: an Active Job that receives (current index, CANCELLED) or (current index,
\* ABORTED) becomes Aborted and calls completion_callback(id, mex_id) in that step
\* without starting a task; a Job that has finished never starts a task again.
C5_FailurePropagation ==
    [][\A j \in JobIds :
          /\ ( /\ last'.op = "task_cb" /\ last'.job = j
               /\ job[j].status = JobStatus.ACTIVE
               /\ last'.task_id = job[j].task_current
               /\ last'.task_status \in {TaskStatus.CANCELLED, TaskStatus.ABORTED} ) =>
                  /\ job'[j].status = JobStatus.ABORTED
                  /\ job'[j].completed = Append(job[j].completed, <<j, job[j].mex_id>>)
                  /\ job'[j].started = job[j].started
          /\ job[j].status \in Terminal =>
                  /\ job'[j].started = job[j].started
                  /\ job'[j].status \in Terminal]_vars

C5_Witness ==
    \E j \in JobIds :
        /\ last.op = "task_cb" /\ last.job = j
        /\ last.task_status = TaskStatus.CANCELLED
        /\ last.task_id = job[j].task_current
        /\ job[j].status = JobStatus.ABORTED
        /\ Len(job[j].completed) = 1
        /\ Len(job[j].started) < job[j].task_count

\* C6: a task callback whose index differs from the Job's current task index, or
\* whose status is ACTIVE, leaves the Job as it was: status, current index,
\* executor id, started tasks and completion callbacks.
C6_IgnoredCallback ==
    [][\A j \in JobIds :
          ( /\ last'.op = "task_cb" /\ last'.job = j
            /\ \/ last'.task_id # job[j].task_current
               \/ last'.task_status = TaskStatus.ACTIVE ) =>
              job'[j] = job[j]]_vars

C6_Witness ==
    \E j \in JobIds :
        /\ last.op = "task_cb" /\ last.job = j
        /\ job[j].status = JobStatus.ACTIVE
        /\ job[j].task_current = 1
        /\ last.task_id = 0
        /\ last.task_status = TaskStatus.SUCCEEDED

\* C16: once a Job is Active, Succeeded or Aborted, no operation (add_task,
\* add_tasks or any other) changes its task list.
C16_TaskListFixedAfterStart ==
    [][\A j \in JobIds :
          Started(job[j]) => job'[j].task_count = job[j].task_count]_vars

\* C17: assign_mex on a Job that is Active, Succeeded or Aborted, and start_job
\* on a Job that is not Assigned, leave the Job as it was (status, mex_id,
\* current task, started tasks, completion callbacks) and raise nothing;
\* assign_mex on a Pending or Assigned Job sets its mex_id and makes it Assigned.
C17_NoOpTransitions ==
    [][\A j \in JobIds :
          /\ (last'.op = "assign_mex" /\ last'.job = j) =>
                IF job[j].status \in {JobStatus.PENDING, JobStatus.ASSIGNED}
                THEN job'[j] = [job[j] EXCEPT !.mex_id = last'.mex, !.status = JobStatus.ASSIGNED]
                ELSE job'[j] = job[j] /\ ~ last'.raised
          /\ (last'.op = "start_job" /\ last'.job = j /\ job[j].status # JobStatus.ASSIGNED) =>
                job'[j] = job[j] /\ ~ last'.raised]_vars

\* A second start_job on a Job that is Active on its second task changed nothing.
C17_Witness ==
    \E j \in JobIds :
        /\ last.op = "start_job" /\ last.job = j
        /\ job[j].status = JobStatus.ACTIVE
        /\ job[j].task_current = 1
        /\ Len(job[j].started) = 2

\* C18: the current task index of a Job is unset while the Job is Pending or
\* Assigned; while it is Active it is an index of the task list, and the task
\* at that index is the last one started, every task started before it having
\* reported success. This holds for a task list of any length, the empty one included.
C18_CurrentTask ==
    \A j \in JobIds :
        LET jb == job[j]
        IN  /\ jb.status \in {JobStatus.PENDING, JobStatus.ASSIGNED} => jb.task_current = None
            /\ jb.status = JobStatus.ACTIVE =>
                  /\ 0 <= jb.task_current /\ jb.task_current < jb.task_count
                  /\ Len(jb.started) = jb.task_current + 1
                  /\ jb.started[Len(jb.started)][1] = jb.task_current
                  /\ \A i \in 0..(jb.task_current - 1) : i \in accepted[j]

(* ------------------- properties of the allocator (Spec) ---------------- *)

Occurrences(list, j) == Cardinality({k \in 1..Len(list) : list[k] = j})

Without(list, index) == SubSeq(list, 1, index - 1) \o SubSeq(list, index + 1, Len(list))

\* The step is one invocation of job_allocator.
AllocatorPass == last'.op = "job_allocator"

\* Job j leaves the pending queue in this step.
Removed(j) == Occurrences(pending_jobs_list, j) > 0 /\ Occurrences(pending_jobs_list', j) = 0

\* In the registry's current list, MEx m is on standby and job j may use it.
Compatible(j, m) ==
    /\ registry[m].status = MExStatus.STANDBY
    /\ (job[j].mex_id = None \/ job[j].mex_id = m)

\* Job j is Pending and some standby MEx is compatible with it.
Eligible(j) == job[j].status = JobStatus.PENDING /\ \E m \in MexIds : Compatible(j, m)

\* C7: an invocation of job_allocator moves at most one job, from the pending
\* queue to the end of the active list, keeping the order of the jobs that stay
\* queued; afterwards every job is in exactly one of the two lists, exactly once.
C7_OneJobMoved ==
    [][AllocatorPass =>
          /\ \/ /\ pending_jobs_list' = pending_jobs_list
                /\ active_jobs_list' = active_jobs_list
                /\ job' = job
             \/ \E index \in 1..Len(pending_jobs_list) :
                   /\ pending_jobs_list' = Without(pending_jobs_list, index)
                   /\ active_jobs_list' = Append(active_jobs_list, pending_jobs_list[index])
                   /\ \A j \in JobIds \ {pending_jobs_list[index]} : job'[j] = job[j]
          /\ \A j \in JobIds :
                Occurrences(pending_jobs_list', j) + Occurrences(active_jobs_list', j) = 1]_vars

\* C8: job_allocator only allocates a job whose status is PENDING, to a MEx that
\* is on standby in the list it fetched, and a job that carries a pre-assigned
\* mex_id keeps exactly that id.
C8_PendingToStandbyOnly ==
    [][\A j \in JobIds :
          (AllocatorPass /\ Removed(j)) =>
              /\ job[j].status = JobStatus.PENDING
              /\ job'[j].mex_id \in MexIds
              /\ registry[job'[j].mex_id].status = MExStatus.STANDBY
              /\ job[j].mex_id # None => job'[j].mex_id = job[j].mex_id]_vars

\* A job was allocated to MEx 2 although MEx 1 was, and still is, on standby in the local list.
C8_Witness ==
    /\ last.op = "job_allocator" /\ last.job # None
    /\ last.mex = 2
    /\ job[last.job].mex_id = 2
    /\ mexs_list[1].status = MExStatus.STANDBY

C10_TieBreak ==
    [][\A index \in 1..Len(pending_jobs_list) :
          LET j == pending_jobs_list[index]
          IN  (AllocatorPass /\ Removed(j)) =>
                  /\ \A k \in 1..(index - 1) : ~ Eligible(pending_jobs_list[k])
                  /\ job'[j].mex_id \in MexIds
                  /\ Compatible(j, job'[j].mex_id)
                  /\ \A m \in MexIds : m < job'[j].mex_id => ~ Compatible(j, m)]_vars

\* A job was allocated to the first MEx while a job of higher priority that could
\* have used the same MEx is still PENDING behind it in the queue, and the
\* second MEx was on standby too.
C10_Witness ==
    /\ last.op = "job_allocator" /\ last.job # None
    /\ last.mex = 1
    /\ mexs_list[2].status = MExStatus.STANDBY
    /\ \E k \in 1..Len(pending_jobs_list) :
          LET j2 == pending_jobs_list[k]
          IN  /\ j2 > last.job
              /\ job[j2].status = JobStatus.PENDING
              /\ job[j2].mex_id = None
              /\ job[j2].priority > job[last.job].priority

\* C11: when job_allocator returns 0 for the pair (j, e): j has left the pending
\* queue and is the last element of the active list; j is ACTIVE with current
\* task 0, task 0 started on e and mex_id e; the entry of e, on standby in the
\* fetched list, was set to ASSIGNED and then to EXECUTING_TASK with job_id j;
\* and the registry was told call_assign_job(j, e) before
\* call_change_mex_status(e, EXECUTING_TASK). No pass puts a MEx back on standby,
\* in the registry or in its local list.
C11_SuccessPostState ==
    [][AllocatorPass =>
          /\ last'.ret = 0 =>
                \E j \in JobIds :
                    LET e == job'[j].mex_id
                    IN  /\ Removed(j)
                        /\ active_jobs_list' = Append(active_jobs_list, j)
                        /\ job'[j].status = JobStatus.ACTIVE
                        /\ job'[j].task_current = 0
                        /\ job'[j].started = << <<0, e>> >>
                        /\ e \in MexIds
                        /\ registry[e].status = MExStatus.STANDBY
                        /\ pass_log' =
                              << LogEntry("call_get_mex_list", None, None, NoStatus, "ack"),
                                 LogEntry("mex.status", j, e, MExStatus.ASSIGNED, "written"),
                                 LogEntry("call_assign_job", j, e, NoStatus, "ack"),
                                 LogEntry("mex.status", j, e, MExStatus.EXECUTING_TASK, "written"),
                                 LogEntry("call_change_mex_status", None, e, MExStatus.EXECUTING_TASK, "ack") >>
                        /\ mexs_list'[e] = [id |-> e, status |-> MExStatus.EXECUTING_TASK, job_id |-> j]
                        /\ registry'[e] = [status |-> MExStatus.EXECUTING_TASK, job_id |-> j]
          /\ \A m \in MexIds :
                /\ registry'[m].status = MExStatus.STANDBY => registry[m].status = MExStatus.STANDBY
                /\ mexs_list'[m].status = MExStatus.STANDBY => registry[m].status = MExStatus.STANDBY]_vars

\* A second job was allocated: both MExs went from standby to EXECUTING_TASK.
C11_Witness ==
    /\ last.op = "job_allocator" /\ last.ret = 0
    /\ Len(active_jobs_list) = 2
    /\ \A m \in {1, 2} : registry[m].status = MExStatus.EXECUTING_TASK /\ registry[m].job_id # None

\* job_allocator binds job j to a MEx in this step.
Bound(j) == job[j].status = JobStatus.PENDING /\ job'[j].status # JobStatus.PENDING

\* The pass sent call_assign_job or call_change_mex_status to the registry.
Notified(log) ==
    \E k \in 1..Len(log) : log[k].call \in {"call_assign_job", "call_change_mex_status"}

\* C12: job_allocator returns 1 exactly when it bound no job to a MEx in that
\* invocation and returns 0 exactly when it bound one; when it returns 1 the
\* pending queue, the active list, every job, and every MEx of the registry are
\* unchanged and the registry was not notified.
C12_MissIffNothingAssigned ==
    [][AllocatorPass =>
          LET bound == {j \in JobIds : Bound(j)}
          IN  /\ (last'.ret = 1) <=> (bound = {})
              /\ (last'.ret = 0) <=> (Cardinality(bound) = 1)
              /\ last'.ret = 1 =>
                    /\ pending_jobs_list' = pending_jobs_list
                    /\ active_jobs_list' = active_jobs_list
                    /\ job' = job
                    /\ registry' = registry
                    /\ ~ Notified(pass_log')]_vars

(* ------------- properties of failing passes (SpecRegistry) ------------- *)

\* A registry call of the pass came back without an acknowledgement or raised.
Failed(log) == \E k \in 1..Len(log) : log[k].outcome \in {"error", "raise"}

\* C13: when call_get_mex_list, call_assign_job or call_change_mex_status fails
\* during a job_allocator pass, every job that was in the pending queue or the
\* active list is still in one of them after the pass, and what the pass returns
\* is neither 0 nor 1.
C13_FailureKeepsJob ==
    [][(AllocatorPass /\ Failed(pass_log')) =>
          /\ \A j \in JobIds :
                Occurrences(pending_jobs_list, j) + Occurrences(active_jobs_list, j) > 0 =>
                    Occurrences(pending_jobs_list', j) + Occurrences(active_jobs_list', j) > 0
          /\ last'.ret \notin {0, 1}]_vars

\* C20: over any number of job_allocator passes, with a registry that applies
\* the notifications it acknowledges and puts a MEx back on standby only after
\* its job's completion callback, no MEx is bound at the same time to two jobs
\* that are Assigned or Active, also when the registry does not acknowledge a
\* call_assign_job or call_change_mex_status.
C20_ExecutorExclusive ==
    \A j1 \in JobIds, j2 \in JobIds :
        ( /\ j1 # j2
          /\ job[j1].status \in {JobStatus.ASSIGNED, JobStatus.ACTIVE}
          /\ job[j2].status \in {JobStatus.ASSIGNED, JobStatus.ACTIVE}
          /\ job[j1].mex_id # None ) =>
            job[j1].mex_id # job[j2].mex_id

(* ------------------- properties of the Tasks (SpecTask) ---------------- *)

TerminalStatus == {TaskStatus.SUCCEEDED, TaskStatus.CANCELLED, TaskStatus.ABORTED}

\* The step is a callback `op` of the Task object at p.
CallbackOf(op, p) == last'.op = op /\ last'.job = p[1] /\ last'.task_id = p[2]

\* C14: a started AwaitingLoadCompletion task calls job_callback at most once,
\* and only with SUCCEEDED, CANCELLED or ABORTED: an input other than 2, 3, 4
\* makes no call, and once the task has a terminal status, its status stays and
\* it makes no further call.
C14_AwaitingLoadReportsOnce ==
    [][\A p \in DOMAIN task :
          task[p].type = TaskType.AWAITINGLOADCOMPLETION =>
              /\ (CallbackOf("input_cb", p) /\ ~ IsEndInput(last'.data)) =>
                    task'[p].reported = task[p].reported
              /\ task[p].status \in TerminalStatus =>
                    /\ task'[p].status = task[p].status
                    /\ task'[p].reported = task[p].reported
              /\ Len(task'[p].reported) <= 1
              /\ \A k \in 1..Len(task'[p].reported) : task'[p].reported[k][2] \in TerminalStatus]_vars

\* C15: for every status code of a finished move_base goal, done_cb calls
\* job_callback exactly once with (task_id, s), s one of SUCCEEDED, CANCELLED,
\* ABORTED; an ACTIVE job whose current task the goal belongs to then moves on,
\* to its next task or to SUCCEEDED or ABORTED.
C15_DoneMapsToTerminal ==
    [][\A p \in DOMAIN task :
          CallbackOf("done_cb", p) =>
              /\ \E s \in TerminalStatus : task'[p].reported = << <<p[2], s>> >>
              /\ (job[p[1]].status = JobStatus.ACTIVE /\ job[p[1]].task_current = p[2]) =>
                    \/ job'[p[1]].status \in Terminal
                    \/ job'[p[1]].task_current = p[2] + 1]_vars

(* ---------------------- termination (SpecLive) ------------------------- *)

\* C19: when every started task delivers one callback for its own index with
\* SUCCEEDED, CANCELLED or ABORTED, a Job that becomes Active eventually is
\* Succeeded or Aborted with its completion callback called.
C19_ActiveJobTerminates ==
    (job[1].status = JobStatus.ACTIVE) ~>
        (job[1].status \in Terminal /\ Len(job[1].completed) > 0)

(* ------------------ callbacks racing a pass (SpecRace) ----------------- *)

\* C21: when task callbacks interleave with a job_allocator / job_refiner pass,
\* no job calls its completion callback before job_refiner has appended it to
\* the active list; no job is appended to the active list while it is already
\* Succeeded or Aborted; and the registry is not told EXECUTING_TASK for a MEx
\* whose job has already called its completion callback.
C21_NoCompletionBeforeAppend ==
    [][/\ \A j \in JobIds :
             /\ job'[j].completed # <<>> => Occurrences(active_jobs_list', j) > 0
             /\ (Occurrences(active_jobs_list, j) = 0 /\ Occurrences(active_jobs_list', j) > 0) =>
                   job[j].status \notin Terminal
       /\ \A m \in MexIds :
             ( /\ registry[m].status # MExStatus.EXECUTING_TASK
               /\ registry'[m].status = MExStatus.EXECUTING_TASK
               /\ registry'[m].job_id # None ) =>
                 job[registry'[m].job_id].completed = <<>>]_vars

====
